---- MODULE Spec2Model ----
(***************************************************************************)
(* Model of typomation (src/main.rs): the keyframe evaluators Track and    *)
(* BoolTrack, and the per-frame systems that write their values onto a     *)
(* Transform and a Sprite.                                                 *)
(*                                                                         *)
(* Scalars (f32) are modelled as exact rationals <<n, d>> with d > 0 in    *)
(* lowest terms, extended with the IEEE-754 specials a division by zero    *)
(* produces: NaN = <<0,0>>, +Inf = <<1,0>>, -Inf = <<-1,0>>.  Rounding of  *)
(* f32 arithmetic is not modelled.                                         *)
(***************************************************************************)
EXTENDS Integers, Sequences, FiniteSets, TLC

\* ------------------------------------------------------------------ bounds
MaxLen == 3
MaxVal == 1
MaxDur == 2
MaxElapsed == 7
MaxNow == 3
MaxFrames == 3

VARIABLES
    track,        \* the keys of the Track under evaluation
    bool_track,   \* the keys of the BoolTrack under evaluation
    made,         \* which constructor built the object: "default", "Track", "BoolTrack"
    called,       \* the evaluator called last: "none", "Track", "BoolTrack"
    elapsed,      \* the argument of that call
    result,       \* what it returned
    animation,    \* the Animation resource: [start, duration]
    now,          \* Instant::now(), in seconds
    frame,        \* app.update() calls completed by main's loop
    ran,          \* the systems that have run in the current update
    started,      \* whether the startup system has run
    transform,    \* the subject's Transform
    sprite,       \* the subject's Sprite
    transform_track,  \* the subject's TransformTrack
    sprite_track,     \* the subject's SpriteTrack, if it has one
    transform_duration,  \* `duration` as read by transform_track_system
    sprite_duration      \* `duration` as read by sprite_track_system

evalVars == <<track, bool_track, made, called, elapsed, result>>

appVars == <<animation, now, frame, ran, started, transform, sprite,
             transform_track, sprite_track, transform_duration,
             sprite_duration>>

vars == <<track, bool_track, made, called, elapsed, result,
          animation, now, frame, ran, started, transform, sprite,
          transform_track, sprite_track, transform_duration,
          sprite_duration>>

\* ----------------------------------------------------------- f32 (Scalar)
Abs(n) == IF n < 0 THEN -n ELSE n

Sign(n) == IF n < 0 THEN -1 ELSE IF n > 0 THEN 1 ELSE 0

RECURSIVE Gcd(_, _)
Gcd(a, b) == IF b = 0 THEN a ELSE Gcd(b, a % b)

Norm(n, d) ==
    IF n = 0 THEN <<0, 1>>
    ELSE LET g == Gcd(Abs(n), d) IN <<n \div g, d \div g>>

R(n) == <<n, 1>>

NaN == <<0, 0>>

IsNaN(a) == a = NaN

IsInf(a) == a[2] = 0 /\ a[1] # 0

IsFinite(a) == a[2] # 0

FNeg(a) == <<-a[1], a[2]>>

FAdd(a, b) ==
    IF IsNaN(a) \/ IsNaN(b) THEN NaN
    ELSE IF IsInf(a) /\ IsInf(b) THEN (IF a = b THEN a ELSE NaN)
    ELSE IF IsInf(a) THEN a
    ELSE IF IsInf(b) THEN b
    ELSE Norm(a[1] * b[2] + b[1] * a[2], a[2] * b[2])

FSub(a, b) == FAdd(a, FNeg(b))

FMul(a, b) ==
    IF IsNaN(a) \/ IsNaN(b) THEN NaN
    ELSE IF IsInf(a) \/ IsInf(b)
         THEN (IF a[1] = 0 \/ b[1] = 0 THEN NaN
               ELSE <<Sign(a[1]) * Sign(b[1]), 0>>)
    ELSE Norm(a[1] * b[1], a[2] * b[2])

FDiv(a, b) ==
    IF IsNaN(a) \/ IsNaN(b) THEN NaN
    ELSE IF IsInf(a) /\ IsInf(b) THEN NaN
    ELSE IF IsInf(a) THEN (IF b[1] < 0 THEN FNeg(a) ELSE a)
    ELSE IF IsInf(b) THEN R(0)
    ELSE IF b[1] = 0 THEN (IF a[1] = 0 THEN NaN ELSE <<Sign(a[1]), 0>>)
    ELSE Norm(a[1] * b[2] * Sign(b[1]), a[2] * Abs(b[1]))

FGt(a, b) ==
    IF IsNaN(a) \/ IsNaN(b) THEN FALSE
    ELSE IF a = b THEN FALSE
    ELSE IF IsInf(a) THEN a[1] > 0
    ELSE IF IsInf(b) THEN b[1] < 0
    ELSE a[1] * b[2] > b[1] * a[2]

FGe(a, b) == FGt(a, b) \/ (a = b /\ ~IsNaN(a))

\* ------------------------------------------------------------ Option<T>
None == <<>>

Some(v) == <<v>>

IsSome(o) == Len(o) = 1

UnwrapOr(o, default) == IF IsSome(o) THEN o[1] ELSE default

\* --------------------------------------------------------------- easing
\* interpolation::Ease: every curve first clamps its argument to [0, 1].
Clamp(p) ==
    IF FGt(p, R(1)) THEN R(1)
    ELSE IF FGt(R(0), p) THEN R(0)
    ELSE p

\* EaseFunction::CubicIn, the one curve the model carries.
Calc(p, ease) == LET c == Clamp(p) IN FMul(FMul(c, c), c)

Lerp(from, to, scalar) == FAdd(from, FMul(FSub(to, from), scalar))

\* ------------------------------------------------------------------ Key
Key(value, duration, ease) ==
    [value |-> value, duration |-> duration, ease |-> ease]

BoolKey(value, duration) == [value |-> value, duration |-> duration]

\* Key::interpolate with the two ends of the lerp exchanged.
Key_interpolate_swapped(self, previous_key, duration) ==
    LET interpolation == FDiv(duration, self.duration) IN
    IF self.ease # "None"
    THEN Lerp(self.value, previous_key.value, Calc(interpolation, self.ease))
    ELSE Lerp(self.value, previous_key.value, interpolation)

Key_interpolate(self, previous_key, duration) ==
    LET interpolation == FDiv(duration, self.duration) IN
    IF self.ease # "None"
    THEN Lerp(previous_key.value, self.value, Calc(interpolation, self.ease))
    ELSE Lerp(previous_key.value, self.value, interpolation)

\* The `for key in keys` loop shared by Track::value and BoolTrack::value,
\* from the key at index i on.  ret tells whether the loop left through the
\* early return (at key `key`) or ran out of keys.
RECURSIVE Walk(_, _, _, _, _)
Walk(keys, i, duration, value, previous_key) ==
    IF i > Len(keys)
    THEN [ret |-> FALSE, key |-> 0, duration |-> duration,
          value |-> value, previous_key |-> previous_key]
    ELSE IF FGt(duration, keys[i].duration)
    THEN Walk(keys, i + 1, FSub(duration, keys[i].duration),
              Some(keys[i].value), i)
    ELSE [ret |-> TRUE, key |-> i, duration |-> duration,
          value |-> value, previous_key |-> previous_key]

\* Track::value taking a single key for a constant.
Track_value_constant(keys, duration) ==
    IF keys = <<>> THEN None
    ELSE LET w == Walk(keys, 2, duration, Some(keys[1].value), 1) IN
         IF w.ret
         THEN Some(Key_interpolate(keys[w.key], keys[w.previous_key], w.duration))
         ELSE w.value

Track_value(keys, duration) ==
    IF keys = <<>> THEN None
    ELSE LET w == Walk(keys, 2, duration, None, 1) IN
         IF w.ret
         THEN Some(Key_interpolate(keys[w.key], keys[w.previous_key], w.duration))
         ELSE w.value

\* BoolTrack::value switching at the key, as Track::value does.
BoolTrack_value_at_key(keys, duration) ==
    IF keys = <<>> THEN None
    ELSE LET w == Walk(keys, 2, duration, None, 1) IN
         IF w.ret THEN Some(keys[w.key].value) ELSE w.value

\* BoolTrack::value returning the fallback from the early return.
BoolTrack_value_fallback(keys, duration) ==
    IF keys = <<>> THEN None
    ELSE LET w == Walk(keys, 2, duration, None, 1) IN
         w.value

BoolTrack_value(keys, duration) ==
    IF keys = <<>> THEN None
    ELSE LET w == Walk(keys, 2, duration, None, 1) IN
         IF w.ret THEN Some(keys[w.previous_key].value) ELSE w.value

Track_new(keys) == keys

BoolTrack_new(keys) == keys

\* ------------------------------------------------- glam: Vec3 and Quat
\* Trigonometry is computed in thousandths (fixed point, Taylor series after
\* range reduction); a quaternion is a 4-tuple <<x, y, z, w>> of Scalars.
Milli == 1000

Pi == 3142

ToMilli(a) == (a[1] * Milli) \div a[2]

FromMilli(m) == Norm(m, Milli)

\* sin of h thousandths of a radian, 0 <= h <= Pi/2, in thousandths.
SinTaylor(h) ==
    LET h2 == (h * h) \div Milli
        t3 == (h2 * h) \div Milli
        t5 == (t3 * h2) \div Milli
        t7 == (t5 * h2) \div Milli
    IN h - (t3 \div 6) + (t5 \div 120) - (t7 \div 5040)

SinMilli(m) ==
    LET r == m % (2 * Pi)
        half == IF r >= Pi THEN r - Pi ELSE r
        q == IF 2 * half > Pi THEN Pi - half ELSE half
    IN IF r >= Pi THEN -SinTaylor(q) ELSE SinTaylor(q)

CosMilli(m) == SinMilli(m + Pi \div 2)

QuatMulMilli(p, q) ==
    << (p[4] * q[1] + p[1] * q[4] + p[2] * q[3] - p[3] * q[2]) \div Milli,
       (p[4] * q[2] - p[1] * q[3] + p[2] * q[4] + p[3] * q[1]) \div Milli,
       (p[4] * q[3] + p[1] * q[2] - p[2] * q[1] + p[3] * q[4]) \div Milli,
       (p[4] * q[4] - p[1] * q[1] - p[2] * q[2] - p[3] * q[3]) \div Milli >>

\* Quat::from_rotation_x/y/z(angle), in thousandths: axis 1, 2 or 3.
RotMilli(axis, angle) ==
    LET s == SinMilli(angle \div 2)
        c == CosMilli(angle \div 2)
    IN [i \in 1..4 |-> IF i = axis THEN s ELSE IF i = 4 THEN c ELSE 0]

\* Quat::from_euler(EulerRot::XYZ, a, b, c) = rot_x(a) * rot_y(b) * rot_z(c).
Quat_from_euler(a, b, c) ==
    IF ~(IsFinite(a) /\ IsFinite(b) /\ IsFinite(c))
    THEN <<NaN, NaN, NaN, NaN>>
    ELSE LET q == QuatMulMilli(
                      QuatMulMilli(RotMilli(1, ToMilli(a)), RotMilli(2, ToMilli(b))),
                      RotMilli(3, ToMilli(c)))
         IN <<FromMilli(q[1]), FromMilli(q[2]), FromMilli(q[3]), FromMilli(q[4])>>

Quat_IDENTITY == <<R(0), R(0), R(0), R(1)>>

\* ------------------------------------------------------- bevy: Color
\* Color is [space, red, green, blue, alpha] with space "Rgba" (sRGB) or
\* "RgbaLinear".  r(), g() and b() report the channel in sRGB space, so a
\* linear colour is converted; the transfer curve is tabulated in tenths.
LinearToSrgbTenths == <<3, 5, 6, 7, 7, 8, 9, 9, 10, 10>>

linear_to_nonlinear_srgb(x) ==
    IF ~FGt(x, R(0)) THEN x
    ELSE LET t == (x[1] * 10) \div x[2] IN
         IF t = 0 THEN Norm(LinearToSrgbTenths[1] * x[1], 10 * x[2])
         ELSE Norm(LinearToSrgbTenths[t], 10)

Color_channel(color, c) ==
    IF color.space = "Rgba" THEN color[c]
    ELSE linear_to_nonlinear_srgb(color[c])

Color_r(color) == Color_channel(color, "red")

Color_g(color) == Color_channel(color, "green")

Color_b(color) == Color_channel(color, "blue")

Color_a(color) == color.alpha

Color_rgba(r, g, b, a) ==
    [space |-> "Rgba", red |-> r, green |-> g, blue |-> b, alpha |-> a]

Color_rgba_linear(r, g, b, a) ==
    [space |-> "RgbaLinear", red |-> r, green |-> g, blue |-> b, alpha |-> a]

Color_WHITE == Color_rgba(R(1), R(1), R(1), R(1))

\* Anchor is [kind, at]; as_vec() of Anchor::Center is the zero vector.
Anchor_Center == [kind |-> "Center", at |-> <<R(0), R(0)>>]

Anchor_Custom(v) == [kind |-> "Custom", at |-> v]

Anchor_as_vec(anchor) == anchor.at

\* ------------------------------------------------------ components
TransformFields ==
    {"position_x", "position_y", "position_z",
     "rotation_x", "rotation_y", "rotation_z",
     "scale_x", "scale_y", "scale_z"}

SpriteScalarFields ==
    {"color_r", "color_g", "color_b", "color_a", "anchor_x", "anchor_y"}

SpriteBoolFields == {"flip_x", "flip_y"}

TransformTrack_default == [f \in TransformFields |-> <<>>]

SpriteTrack_empty == [f \in SpriteScalarFields \cup SpriteBoolFields |-> <<>>]

Transform_default ==
    [translation |-> <<R(0), R(0), R(0)>>,
     rotation |-> Quat_IDENTITY,
     scale |-> <<R(1), R(1), R(1)>>]

Sprite_default ==
    [color |-> Color_WHITE, flip_x |-> FALSE, flip_y |-> FALSE,
     anchor |-> Anchor_Center]

frames == 100

Animation_default == [start |-> 0, duration |-> R(0)]

\* ------------------------------------------------- subjects spawned
\* setup_system spawns one sprite with position_x animated.  The systems run
\* over whatever subjects an application spawns, so the model also draws
\* subjects with other initial components and other animated properties.
\* The track setup_system builds for position_x.
SetupKeys == <<Key(R(0), R(0), "None"), Key(R(500), R(10), "None")>>

UnitKeys == <<Key(R(0), R(0), "None"), Key(R(1), R(2), "None")>>

UnitBoolKeys == <<BoolKey(FALSE, R(0)), BoolKey(TRUE, R(1))>>

RotationSet == {Quat_IDENTITY, Quat_from_euler(R(1), R(0), R(0))}

ColorSet == {Color_WHITE, Color_rgba(Norm(1, 2), Norm(1, 2), Norm(1, 2), R(1))}

TransformTrackSet ==
    {TransformTrack_default,
     [TransformTrack_default EXCEPT !["position_x"] = Track_new(SetupKeys)]}
    \cup {[TransformTrack_default EXCEPT ![f] = Track_new(UnitKeys)] :
            f \in TransformFields}

SpriteTrackSet ==
    {None, Some(SpriteTrack_empty)}
    \cup {Some([SpriteTrack_empty EXCEPT ![f] = Track_new(UnitKeys)]) :
            f \in SpriteScalarFields}
    \cup {Some([SpriteTrack_empty EXCEPT ![f] = BoolTrack_new(UnitBoolKeys)]) :
            f \in SpriteBoolFields}

\* ------------------------------------------------- the application
Init ==
    /\ animation = Animation_default
    /\ now = 0
    /\ frame = 0
    /\ ran = {}
    /\ started = FALSE
    /\ transform = Transform_default
    /\ sprite = Sprite_default
    /\ transform_track = TransformTrack_default
    /\ sprite_track = None
    /\ transform_duration = R(0)
    /\ sprite_duration = R(0)
    /\ track = <<>>
    /\ bool_track = <<>>
    /\ made = "default"
    /\ called = "none"
    /\ elapsed = R(0)
    /\ result = None

Updating == frame < frames /\ frame < MaxFrames

\* A schedule without the .after(pre_animation_system) constraints.
unordered == TRUE

\* main orders both track systems .after(pre_animation_system).
after_pre_animation_system == "pre_animation_system" \in ran

setup_system ==
    /\ Updating
    /\ ~started
    /\ started' = TRUE
    /\ \E rotation \in RotationSet, color \in ColorSet :
          /\ transform' = [Transform_default EXCEPT !.rotation = rotation]
          /\ sprite' = [Sprite_default EXCEPT !.color = color]
    /\ \E tt \in TransformTrackSet : transform_track' = tt
    /\ \E st \in SpriteTrackSet : sprite_track' = st
    /\ UNCHANGED <<animation, now, frame, ran, transform_duration,
                   sprite_duration>>
    /\ UNCHANGED evalVars

pre_animation_system ==
    /\ Updating
    /\ started
    /\ "pre_animation_system" \notin ran
    /\ \E instant \in now..MaxNow :
          /\ now' = instant
          /\ animation' = [animation EXCEPT
                             !.duration = R(instant - animation.start)]
    /\ ran' = ran \cup {"pre_animation_system"}
    /\ UNCHANGED <<frame, started, transform, sprite, transform_track,
                   sprite_track, transform_duration, sprite_duration>>
    /\ UNCHANGED evalVars

transform_track_system ==
    /\ Updating
    /\ started
    /\ after_pre_animation_system
    /\ "transform_track_system" \notin ran
    /\ LET duration == animation.duration
           track_ == transform_track
           translation == transform.translation
           rotation == transform.rotation
           scale == transform.scale
       IN /\ transform_duration' = duration
          /\ transform' =
               [translation |->
                  << UnwrapOr(Track_value(track_.position_x, duration), translation[1]),
                     UnwrapOr(Track_value(track_.position_y, duration), translation[2]),
                     UnwrapOr(Track_value(track_.position_z, duration), translation[3]) >>,
                scale |->
                  << UnwrapOr(Track_value(track_.scale_x, duration), scale[1]),
                     UnwrapOr(Track_value(track_.scale_y, duration), scale[2]),
                     UnwrapOr(Track_value(track_.scale_z, duration), scale[3]) >>,
                rotation |->
                  Quat_from_euler(
                     UnwrapOr(Track_value(track_.rotation_x, duration), rotation[1]),
                     UnwrapOr(Track_value(track_.rotation_y, duration), rotation[2]),
                     UnwrapOr(Track_value(track_.rotation_z, duration), rotation[3]))]
    /\ ran' = ran \cup {"transform_track_system"}
    /\ UNCHANGED <<animation, now, frame, started, sprite, transform_track,
                   sprite_track, sprite_duration>>
    /\ UNCHANGED evalVars

sprite_track_system ==
    /\ Updating
    /\ started
    /\ after_pre_animation_system
    /\ "sprite_track_system" \notin ran
    /\ LET duration == animation.duration IN
       /\ sprite_duration' = duration
       /\ IF IsSome(sprite_track)
          THEN LET track_ == sprite_track[1]
                   color == sprite.color
                   anchor == Anchor_as_vec(sprite.anchor)
               IN sprite' =
                    [color |-> Color_rgba_linear(
                        UnwrapOr(Track_value(track_.color_r, duration), Color_r(color)),
                        UnwrapOr(Track_value(track_.color_g, duration), Color_g(color)),
                        UnwrapOr(Track_value(track_.color_b, duration), Color_b(color)),
                        UnwrapOr(Track_value(track_.color_a, duration), Color_a(color))),
                     flip_x |-> UnwrapOr(BoolTrack_value(track_.flip_x, duration), sprite.flip_x),
                     flip_y |-> UnwrapOr(BoolTrack_value(track_.flip_y, duration), sprite.flip_y),
                     anchor |-> Anchor_Custom(
                        << UnwrapOr(Track_value(track_.anchor_x, duration), anchor[1]),
                           UnwrapOr(Track_value(track_.anchor_y, duration), anchor[2]) >>)]
          ELSE sprite' = sprite
    /\ ran' = ran \cup {"sprite_track_system"}
    /\ UNCHANGED <<animation, now, frame, started, transform, transform_track,
                   sprite_track, transform_duration>>
    /\ UNCHANGED evalVars

\* app.update() returns once every system of the schedule has run; main's
\* loop then goes on to the next frame.
Systems ==
    {"pre_animation_system", "transform_track_system", "sprite_track_system"}

update_done ==
    /\ Updating
    /\ ran = Systems
    /\ frame' = frame + 1
    /\ ran' = {}
    /\ UNCHANGED <<animation, now, started, transform, sprite, transform_track,
                   sprite_track, transform_duration, sprite_duration>>
    /\ UNCHANGED evalVars

Next ==
    \/ setup_system
    \/ pre_animation_system
    \/ transform_track_system
    \/ sprite_track_system
    \/ update_done

Spec == Init /\ [][Next]_vars

\* ---------------------------------------------------------------- inputs
EaseSet == {"None", "CubicIn"}

KeySet ==
    {Key(R(v), R(d), e) : v \in 0..MaxVal, d \in 0..MaxDur, e \in EaseSet}

BoolKeySet == {BoolKey(v, R(d)) : v \in BOOLEAN, d \in 0..MaxDur}

\* The boolean timeline of the documented scenario.
ScenarioBoolKeys ==
    <<BoolKey(FALSE, R(0)), BoolKey(TRUE, R(5)), BoolKey(FALSE, R(5))>>

ScenarioElapsed == {2, 5, 6, 10, 11, 20}

\* The first key only supplies a value: no code reads its duration or its
\* ease, so the tracks drawn vary them less than those of the later keys.
FirstKeySet ==
    {Key(R(v), R(d), "None") : v \in 0..MaxVal, d \in {0, MaxDur}}

TrackSet ==
    {<<>>, SetupKeys}
    \cup {<<first>> \o rest :
            first \in FirstKeySet,
            rest \in UNION {[1..n -> KeySet] : n \in 0..(MaxLen - 1)}}

BoolTrackSet ==
    UNION {[1..n -> BoolKeySet] : n \in 0..MaxLen} \cup {ScenarioBoolKeys}

\* The elapsed times a track is evaluated at; the two documented timelines
\* are also evaluated at the documented instants.
ElapsedSet(keys) ==
    {R(e) : e \in 0..MaxElapsed}
    \cup (IF keys \in {SetupKeys, ScenarioBoolKeys}
          THEN {R(e) : e \in ScenarioElapsed} ELSE {})

\* ------------------------------------------- evaluator specification
EvalInit ==
    /\ track = <<>>
    /\ bool_track = <<>>
    /\ made = "default"
    /\ called = "none"
    /\ elapsed = R(0)
    /\ result = None
    /\ animation = Animation_default
    /\ now = 0
    /\ frame = 0
    /\ ran = {}
    /\ started = FALSE
    /\ transform = Transform_default
    /\ sprite = Sprite_default
    /\ transform_track = TransformTrack_default
    /\ sprite_track = None
    /\ transform_duration = R(0)
    /\ sprite_duration = R(0)

TrackNew ==
    /\ made = "default"
    /\ called = "none"
    /\ \E keys \in TrackSet : track' = Track_new(keys)
    /\ made' = "Track"
    /\ UNCHANGED <<bool_track, called, elapsed, result>>
    /\ UNCHANGED appVars

BoolTrackNew ==
    /\ made = "default"
    /\ called = "none"
    /\ \E keys \in BoolTrackSet : bool_track' = BoolTrack_new(keys)
    /\ made' = "BoolTrack"
    /\ UNCHANGED <<track, called, elapsed, result>>
    /\ UNCHANGED appVars

\* value() is pure: a run evaluates the track once, at any elapsed time.
TrackValue ==
    /\ made # "BoolTrack"
    /\ called = "none"
    /\ \E duration \in ElapsedSet(track) :
          /\ elapsed' = duration
          /\ result' = Track_value(track, duration)
    /\ called' = "Track"
    /\ UNCHANGED <<track, bool_track, made>>
    /\ UNCHANGED appVars

BoolTrackValue ==
    /\ made # "Track"
    /\ called = "none"
    /\ \E duration \in ElapsedSet(bool_track) :
          /\ elapsed' = duration
          /\ result' = BoolTrack_value(bool_track, duration)
    /\ called' = "BoolTrack"
    /\ UNCHANGED <<track, bool_track, made>>
    /\ UNCHANGED appVars

EvalNext == TrackNew \/ BoolTrackNew \/ TrackValue \/ BoolTrackValue

EvalSpec == EvalInit /\ [][EvalNext]_vars

\* ===================================================== properties
\* The sum of the durations of keys[from..to].
RECURSIVE DurSum(_, _, _)
DurSum(keys, from, to) ==
    IF from > to THEN R(0)
    ELSE FAdd(keys[to].duration, DurSum(keys, from, to - 1))

\* The key in whose segment `e` falls: the first key i >= 2 with e no
\* greater than the durations of keys 2..i together; 0 when e lies past the
\* last key.
StopKey(keys, e) ==
    LET inside == {i \in 2..Len(keys) : ~FGt(e, DurSum(keys, 2, i))}
    IN IF inside = {} THEN 0
       ELSE CHOOSE i \in inside : \A j \in inside : i <= j

Last(keys) == keys[Len(keys)]

\* C1: a scalar Track evaluated at or past the end of its timeline (elapsed
\* >= the durations of all keys but the first together) returns the last
\* key's value.  Stated for tracks that have a key after the first.
C1_HeldAtEnd ==
    (called = "Track" /\ Len(track) >= 2
        /\ FGe(elapsed, DurSum(track, 2, Len(track))))
    => result = Some(Last(track).value)

\* C2: a Track or BoolTrack with fewer than 2 keys returns no value for
\* every elapsed time.
C2_FewKeysNoValue ==
    /\ (called = "Track" /\ Len(track) < 2) => result = None
    /\ (called = "BoolTrack" /\ Len(bool_track) < 2) => result = None

C2_Witness ==
    /\ called = "Track"
    /\ Len(track) = 1
    /\ FGt(elapsed, R(0))
    /\ result = None

\* C3: a scalar Track whose second key has a positive duration returns
\* exactly the first key's value at elapsed = 0.
C3_StartValue ==
    (called = "Track" /\ Len(track) >= 2 /\ elapsed = R(0)
        /\ FGt(track[2].duration, R(0)))
    => result = Some(track[1].value)

C3_Witness ==
    /\ called = "Track"
    /\ Len(track) >= 2
    /\ elapsed = R(0)
    /\ FGt(track[2].duration, R(0))
    /\ track[1].value # track[2].value
    /\ result = Some(track[1].value)

NoEase(keys) == \A i \in 1..Len(keys) : keys[i].ease = "None"

\* C4: for a Track without eases, when elapsed falls in the segment of key
\* k the result is previous + (k - previous) * remaining / k.duration; at
\* the exact end of the segment (remaining = k.duration) it is key k's
\* value; and the track of setup_system gives 0, 250, 500, 500 at elapsed
\* 0, 5, 10, 20.
C4_Linear ==
    (called = "Track" /\ NoEase(track)) =>
        LET k == StopKey(track, elapsed) IN
        /\ k # 0 =>
             LET remaining == FSub(elapsed, DurSum(track, 2, k - 1))
                 previous == track[k - 1].value
             IN /\ result = Some(FAdd(previous,
                                  FDiv(FMul(FSub(track[k].value, previous), remaining),
                                       track[k].duration)))
                /\ remaining = track[k].duration => result = Some(track[k].value)
        /\ track = SetupKeys =>
             /\ elapsed = R(0) => result = Some(R(0))
             /\ elapsed = R(5) => result = Some(R(250))
             /\ elapsed = R(10) => result = Some(R(500))
             /\ elapsed = R(20) => result = Some(R(500))

\* C5 as stated: a BoolTrack evaluated inside the segment of key i returns
\* the previous key's value, and a key's value is reported only after the
\* walk has gone on to a further segment (and stopped there).
C5_Original ==
    (called = "BoolTrack" /\ Len(bool_track) >= 2) =>
        LET s == StopKey(bool_track, elapsed)
            w == Walk(bool_track, 2, elapsed, None, 1)
        IN /\ s # 0 => result = Some(bool_track[s - 1].value)
           /\ w.previous_key >= 2 => s > w.previous_key

\* C5 (amended): a BoolTrack evaluated inside the segment of key i returns
\* the previous key's value; the value of a key i >= 2 is reported only once
\* the walk has consumed segment i, which is when it stops in segment i + 1
\* or, for the last key, when elapsed lies past the whole timeline.
C5_DelayedSwitch ==
    (called = "BoolTrack" /\ Len(bool_track) >= 2) =>
        LET s == StopKey(bool_track, elapsed)
            w == Walk(bool_track, 2, elapsed, None, 1)
        IN /\ s # 0 => result = Some(bool_track[s - 1].value)
           /\ s = 0 => result = Some(Last(bool_track).value)
           /\ w.previous_key >= 2 =>
                /\ FGt(elapsed, DurSum(bool_track, 2, w.previous_key))
                /\ \/ s = w.previous_key + 1
                   \/ s = 0 /\ w.previous_key = Len(bool_track)

C5_Witness ==
    /\ called = "BoolTrack"
    /\ Len(bool_track) = 3
    /\ StopKey(bool_track, elapsed) = 3
    /\ bool_track[2].value # bool_track[3].value
    /\ result = Some(bool_track[2].value)

\* C6 as stated: the scenario timeline gives false at 2, true at 6 and true
\* at 11.
C6_Original ==
    (called = "BoolTrack" /\ bool_track = ScenarioBoolKeys) =>
        /\ elapsed = R(2) => result = Some(FALSE)
        /\ elapsed = R(6) => result = Some(TRUE)
        /\ elapsed = R(11) => result = Some(TRUE)

\* C6 (amended): the scenario timeline gives false at 2, true at 6 and
\* false at 11: past the end the last key's value is reported.
C6_Scenario ==
    (called = "BoolTrack" /\ bool_track = ScenarioBoolKeys) =>
        /\ elapsed = R(2) => result = Some(FALSE)
        /\ elapsed = R(6) => result = Some(TRUE)
        /\ elapsed = R(11) => result = Some(FALSE)

C6_Witness ==
    /\ called = "BoolTrack"
    /\ bool_track = ScenarioBoolKeys
    /\ elapsed = R(11)
    /\ result = Some(FALSE)

\* C7: no constructed track holds a key after the first whose duration is
\* not positive, and no evaluation yields NaN from a division by zero.
C7_PositiveDurations ==
    /\ made = "Track" =>
         \A i \in 2..Len(track) : FGt(track[i].duration, R(0))
    /\ made = "BoolTrack" =>
         \A i \in 2..Len(bool_track) : FGt(bool_track[i].duration, R(0))
    /\ called = "Track" => result # Some(NaN)

\* C10: a Track or BoolTrack with at least 2 keys returns a value for every
\* elapsed time.
C10_ValueWhenTwoKeys ==
    /\ (called = "Track" /\ Len(track) >= 2) => IsSome(result)
    /\ (called = "BoolTrack" /\ Len(bool_track) >= 2) => IsSome(result)

C10_Witness ==
    /\ called = "BoolTrack"
    /\ Len(bool_track) >= 2
    /\ FGt(bool_track[2].duration, elapsed)
    /\ IsSome(result)

\* C8: a track system leaves every property whose evaluator returned no
\* value at the value it held: each translation and scale axis, the rotation
\* when none of its axes is animated, each colour channel, both flips and
\* each anchor coordinate.
NoValue(keys) == Track_value(keys, animation.duration) = None

NoBool(keys) == BoolTrack_value(keys, animation.duration) = None

C8_TransformKept ==
    /\ NoValue(transform_track.position_x)
         => transform'.translation[1] = transform.translation[1]
    /\ NoValue(transform_track.position_y)
         => transform'.translation[2] = transform.translation[2]
    /\ NoValue(transform_track.position_z)
         => transform'.translation[3] = transform.translation[3]
    /\ NoValue(transform_track.scale_x) => transform'.scale[1] = transform.scale[1]
    /\ NoValue(transform_track.scale_y) => transform'.scale[2] = transform.scale[2]
    /\ NoValue(transform_track.scale_z) => transform'.scale[3] = transform.scale[3]
    /\ (/\ NoValue(transform_track.rotation_x)
        /\ NoValue(transform_track.rotation_y)
        /\ NoValue(transform_track.rotation_z))
         => transform'.rotation = transform.rotation

C8_SpriteKept ==
    IsSome(sprite_track) =>
        LET st == sprite_track[1] IN
        /\ NoValue(st.color_r) => Color_r(sprite'.color) = Color_r(sprite.color)
        /\ NoValue(st.color_g) => Color_g(sprite'.color) = Color_g(sprite.color)
        /\ NoValue(st.color_b) => Color_b(sprite'.color) = Color_b(sprite.color)
        /\ NoValue(st.color_a) => Color_a(sprite'.color) = Color_a(sprite.color)
        /\ NoBool(st.flip_x) => sprite'.flip_x = sprite.flip_x
        /\ NoBool(st.flip_y) => sprite'.flip_y = sprite.flip_y
        /\ NoValue(st.anchor_x)
             => Anchor_as_vec(sprite'.anchor)[1] = Anchor_as_vec(sprite.anchor)[1]
        /\ NoValue(st.anchor_y)
             => Anchor_as_vec(sprite'.anchor)[2] = Anchor_as_vec(sprite.anchor)[2]

C8_NoValueKeeps ==
    [][/\ "transform_track_system" \in ran' \ ran => C8_TransformKept
       /\ "sprite_track_system" \in ran' \ ran => C8_SpriteKept]_vars

\* C9: in every update the clock step runs once, before both track systems;
\* both systems read the elapsed time written in that update; and the
\* elapsed time never decreases.
C9_ReadsThisUpdate ==
    /\ "transform_track_system" \in ran =>
         /\ "pre_animation_system" \in ran
         /\ transform_duration = animation.duration
    /\ "sprite_track_system" \in ran =>
         /\ "pre_animation_system" \in ran
         /\ sprite_duration = animation.duration

C9_ClockStep ==
    /\ FGe(animation'.duration, animation.duration)
    /\ animation' # animation => (ran = {} /\ ran' = {"pre_animation_system"})
    /\ frame' # frame => "pre_animation_system" \in ran

C9_ClockFirst == []C9_ReadsThisUpdate /\ [][C9_ClockStep]_vars

C9_Witness ==
    /\ frame = 1
    /\ ran = Systems
    /\ FGt(animation.duration, R(1))
    /\ transform_duration = animation.duration
    /\ sprite_duration = animation.duration

====
